---- MODULE Spec2Model ----
(***************************************************************************)
(* Model of BookCollection (src/app.py): the in-memory books_list of each  *)
(* Streamlit session, the books.json file they share, and the add /        *)
(* delete / update operations with their whole-file persistence.           *)
(*                                                                         *)
(* Python strings are sequences of one-character strings.  A scalar is a   *)
(* tagged record, a dict is an insertion-ordered sequence of key/value     *)
(* pairs, and the file's text is a sequence of JSON tokens, written by     *)
(* json_dump and read back by json_load.                                   *)
(***************************************************************************)
EXTENDS Integers, Sequences, FiniteSets, TLC

VARIABLES books_list, file, now, call, handler, faults

vars == <<books_list, file, now, call, handler, faults>>

(***************************************************************************)
(* Bounds of the model.                                                    *)
(***************************************************************************)
MaxBooks == 2
MaxFaults == 1
MaxWritten == 2

(***************************************************************************)
(* Python values.                                                          *)
(***************************************************************************)
PyStr(s) == [ty |-> "str", s |-> s, n |-> 0, b |-> FALSE]
PyInt(n) == [ty |-> "int", s |-> <<>>, n |-> n, b |-> FALSE]
PyBool(b) == [ty |-> "bool", s |-> <<>>, n |-> 0, b |-> b]
PyNone == [ty |-> "none", s |-> <<>>, n |-> 0, b |-> FALSE]

PyList(items) == [ty |-> "list", items |-> items, d |-> <<>>, v |-> PyNone]
PyDict(d) == [ty |-> "dict", items |-> <<>>, d |-> d, v |-> PyNone]
PyScalar(v) == [ty |-> "scalar", items |-> <<>>, d |-> <<>>, v |-> v]

\* dict lookup d[key]; the model only reads keys that are present
HasKey(d, key) == \E i \in 1..Len(d) : d[i].k = key
Get(d, key) == d[CHOOSE i \in 1..Len(d) : d[i].k = key].v

\* d[key] = value: an existing key keeps its position, a new key goes last
DictSet(d, key, value) ==
    IF HasKey(d, key)
    THEN [i \in 1..Len(d) |-> IF d[i].k = key THEN [k |-> key, v |-> value] ELSE d[i]]
    ELSE Append(d, [k |-> key, v |-> value])

\* dict.update(other): sets other's items in other's order
RECURSIVE DictUpdate(_, _)
DictUpdate(d, other) ==
    IF other = <<>> THEN d
    ELSE DictUpdate(DictSet(d, Head(other).k, Head(other).v), Tail(other))

(***************************************************************************)
(* str.lower(), character by character.                                    *)
(***************************************************************************)
UpperCase == <<"A", "B", "C", "D", "E", "F", "G", "H", "I", "J", "K", "L", "M",
               "N", "O", "P", "Q", "R", "S", "T", "U", "V", "W", "X", "Y", "Z">>
LowerCase == <<"a", "b", "c", "d", "e", "f", "g", "h", "i", "j", "k", "l", "m",
               "n", "o", "p", "q", "r", "s", "t", "u", "v", "w", "x", "y", "z">>

LowerChar(c) ==
    IF \E i \in 1..Len(UpperCase) : UpperCase[i] = c
    THEN LowerCase[CHOOSE i \in 1..Len(UpperCase) : UpperCase[i] = c]
    ELSE c

Lower(s) == [i \in 1..Len(s) |-> LowerChar(s[i])]

(***************************************************************************)
(* Decimal text of integers, and datetime.strftime("%Y-%m-%d").            *)
(***************************************************************************)
DigitChars == <<"0", "1", "2", "3", "4", "5", "6", "7", "8", "9">>

RECURSIVE Digits(_)
Digits(n) ==
    IF n < 10 THEN <<DigitChars[n + 1]>>
    ELSE Append(Digits(n \div 10), DigitChars[(n % 10) + 1])

IsDigit(c) == \E i \in 1..10 : DigitChars[i] = c
DigitValue(c) == (CHOOSE i \in 1..10 : DigitChars[i] = c) - 1

RECURSIVE DigitsToInt(_)
DigitsToInt(cs) ==
    IF cs = <<>> THEN 0
    ELSE DigitsToInt(SubSeq(cs, 1, Len(cs) - 1)) * 10 + DigitValue(cs[Len(cs)])

RECURSIVE ZeroPad(_, _)
ZeroPad(cs, width) == IF Len(cs) >= width THEN cs ELSE ZeroPad(<<"0">> \o cs, width)

\* strftime that leaves out the zero padding of %m and %d
strftime_unpadded(dt) ==
    Digits(dt.year) \o <<"-">> \o Digits(dt.month) \o <<"-">> \o Digits(dt.day)

strftime(dt) ==
    ZeroPad(Digits(dt.year), 4) \o <<"-">> \o ZeroPad(Digits(dt.month), 2)
        \o <<"-">> \o ZeroPad(Digits(dt.day), 2)

(***************************************************************************)
(* json.dump: the token text of a value.                                   *)
(***************************************************************************)
Punct(c) == [t |-> "punct", v |-> <<c>>]
StrTok(s) == [t |-> "str", v |-> s]
NumTok(n) == [t |-> "num", v |-> Digits(n)]
LitTok(cs) == [t |-> "lit", v |-> cs]

TrueLit == <<"t", "r", "u", "e">>
FalseLit == <<"f", "a", "l", "s", "e">>
NullLit == <<"n", "u", "l", "l">>

\* a dump that writes every scalar as a JSON string
DumpScalarAsText(x) ==
    CASE x.ty = "str" -> StrTok(x.s)
      [] x.ty = "int" -> StrTok(Digits(x.n))
      [] x.ty = "bool" -> StrTok(IF x.b THEN TrueLit ELSE FalseLit)
      [] OTHER -> StrTok(NullLit)

DumpScalar(x) ==
    CASE x.ty = "str" -> StrTok(x.s)
      [] x.ty = "int" -> NumTok(x.n)
      [] x.ty = "bool" -> LitTok(IF x.b THEN TrueLit ELSE FalseLit)
      [] OTHER -> LitTok(NullLit)

RECURSIVE DumpMembers(_)
DumpMembers(d) ==
    IF d = <<>> THEN <<>>
    ELSE <<StrTok(Head(d).k), Punct(":"), DumpScalar(Head(d).v)>>
            \o (IF Len(d) > 1 THEN <<Punct(",")>> ELSE <<>>)
            \o DumpMembers(Tail(d))

DumpDict(d) == <<Punct("{")>> \o DumpMembers(d) \o <<Punct("}")>>

RECURSIVE DumpElements(_)
DumpElements(items) ==
    IF items = <<>> THEN <<>>
    ELSE DumpDict(Head(items))
            \o (IF Len(items) > 1 THEN <<Punct(",")>> ELSE <<>>)
            \o DumpElements(Tail(items))

json_dump(val) ==
    CASE val.ty = "list" -> <<Punct("[")>> \o DumpElements(val.items) \o <<Punct("]")>>
      [] val.ty = "dict" -> DumpDict(val.d)
      [] OTHER -> <<DumpScalar(val.v)>>

(***************************************************************************)
(* json.load: a recursive-descent parse of the token text.  It accepts a   *)
(* scalar, an object of scalars, or an array of objects of scalars, and    *)
(* fails (JSONDecodeError) on anything else, trailing tokens included.     *)
(***************************************************************************)
Fail == [ok |-> FALSE, pos |-> 0]

IsPunct(toks, i, c) == i <= Len(toks) /\ toks[i] = Punct(c)

ParseScalar(toks, i) ==
    IF i > Len(toks) THEN Fail
    ELSE LET tok == toks[i] IN
         CASE tok.t = "str" -> [ok |-> TRUE, pos |-> i + 1, val |-> PyStr(tok.v)]
           [] tok.t = "num" /\ tok.v # <<>> /\ \A j \in 1..Len(tok.v) : IsDigit(tok.v[j])
                -> [ok |-> TRUE, pos |-> i + 1, val |-> PyInt(DigitsToInt(tok.v))]
           [] tok.t = "lit" /\ tok.v = TrueLit
                -> [ok |-> TRUE, pos |-> i + 1, val |-> PyBool(TRUE)]
           [] tok.t = "lit" /\ tok.v = FalseLit
                -> [ok |-> TRUE, pos |-> i + 1, val |-> PyBool(FALSE)]
           [] tok.t = "lit" /\ tok.v = NullLit
                -> [ok |-> TRUE, pos |-> i + 1, val |-> PyNone]
           [] OTHER -> Fail

RECURSIVE ParseMembers(_, _, _)
ParseMembers(toks, i, acc) ==
    IF ~(i + 1 <= Len(toks) /\ toks[i].t = "str" /\ IsPunct(toks, i + 1, ":")) THEN Fail
    ELSE LET r == ParseScalar(toks, i + 2) IN
         IF ~r.ok THEN Fail
         ELSE LET d == DictSet(acc, toks[i].v, r.val) IN
              IF IsPunct(toks, r.pos, ",") THEN ParseMembers(toks, r.pos + 1, d)
              ELSE IF IsPunct(toks, r.pos, "}")
                   THEN [ok |-> TRUE, pos |-> r.pos + 1, val |-> d]
                   ELSE Fail

ParseDict(toks, i) ==
    IF ~IsPunct(toks, i, "{") THEN Fail
    ELSE IF IsPunct(toks, i + 1, "}") THEN [ok |-> TRUE, pos |-> i + 2, val |-> <<>>]
         ELSE ParseMembers(toks, i + 1, <<>>)

RECURSIVE ParseElements(_, _, _)
ParseElements(toks, i, acc) ==
    LET r == ParseDict(toks, i) IN
    IF ~r.ok THEN Fail
    ELSE IF IsPunct(toks, r.pos, ",") THEN ParseElements(toks, r.pos + 1, Append(acc, r.val))
         ELSE IF IsPunct(toks, r.pos, "]")
              THEN [ok |-> TRUE, pos |-> r.pos + 1, val |-> Append(acc, r.val)]
              ELSE Fail

ParseValue(toks) ==
    IF IsPunct(toks, 1, "[")
    THEN IF IsPunct(toks, 2, "]") THEN [ok |-> TRUE, pos |-> 3, val |-> PyList(<<>>)]
         ELSE LET r == ParseElements(toks, 2, <<>>) IN
              IF r.ok THEN [ok |-> TRUE, pos |-> r.pos, val |-> PyList(r.val)] ELSE Fail
    ELSE IF IsPunct(toks, 1, "{")
         THEN LET r == ParseDict(toks, 1) IN
              IF r.ok THEN [ok |-> TRUE, pos |-> r.pos, val |-> PyDict(r.val)] ELSE Fail
         ELSE LET r == ParseScalar(toks, 1) IN
              IF r.ok THEN [ok |-> TRUE, pos |-> r.pos, val |-> PyScalar(r.val)] ELSE Fail

json_load(toks) ==
    LET r == ParseValue(toks) IN
    IF r.ok /\ r.pos = Len(toks) + 1 THEN [ok |-> TRUE, val |-> r.val]
    ELSE [ok |-> FALSE, val |-> PyList(<<>>)]

(***************************************************************************)
(* The book records and the inputs the model draws from.                   *)
(***************************************************************************)
K_title == <<"t", "i", "t", "l", "e">>
K_author == <<"a", "u", "t", "h", "o", "r">>
K_year == <<"y", "e", "a", "r">>
K_genre == <<"g", "e", "n", "r", "e">>
K_read == <<"r", "e", "a", "d">>
K_date_added == <<"d", "a", "t", "e", "_", "a", "d", "d", "e", "d">>
K_notes == <<"n", "o", "t", "e", "s">>

\* datetime.now() takes the successive values of Clock
Clock == <<[year |-> 2024, month |-> 12, day |-> 31], [year |-> 2025, month |-> 1, day |-> 1]>>

Fiction == <<"F", "i", "c", "t", "i", "o", "n">>
Other == <<"O", "t", "h", "e", "r">>

\* (title, author, year, genre, read) of the add calls and of the Add Book form
ValidInputs ==
    { [title |-> <<"a">>, author |-> <<"x">>, year |-> 1965, genre |-> Fiction, read |-> FALSE],
      [title |-> <<"A">>, author |-> <<"y">>, year |-> 1970, genre |-> Other, read |-> TRUE],
      [title |-> <<"b">>, author |-> <<"x">>, year |-> 1965, genre |-> Fiction, read |-> FALSE] }

EmptyTitle ==
    [title |-> <<>>, author |-> <<"x">>, year |-> 1965, genre |-> Fiction, read |-> FALSE]
EmptyAuthor ==
    [title |-> <<"b">>, author |-> <<>>, year |-> 1965, genre |-> Fiction, read |-> FALSE]

\* add_book is called with the valid inputs and with an empty title
AddInputs == ValidInputs \cup {EmptyTitle}

\* the form is submitted with a valid input and with each field empty
FormInputs ==
    {EmptyTitle, EmptyAuthor} \cup
    { [title |-> <<"a">>, author |-> <<"x">>, year |-> 1965, genre |-> Fiction, read |-> FALSE] }

NoInput == [title |-> <<>>, author |-> <<>>, year |-> 0, genre |-> <<>>, read |-> FALSE]

\* titles given to delete_book and to update_book
DeleteTitles == {<<"A">>, <<"b">>}
UpdateTitles == {<<"A">>}

\* new_data of the update_book calls
NewData ==
    { <<[k |-> K_read, v |-> PyBool(TRUE)],
        [k |-> K_date_added, v |-> PyStr(strftime([year |-> 1999, month |-> 2, day |-> 3]))],
        [k |-> K_notes, v |-> PyStr(<<"n">>)]>> }

OldBook ==
    <<[k |-> K_title, v |-> PyStr(<<"B">>)],
      [k |-> K_author, v |-> PyStr(<<"x">>)],
      [k |-> K_year, v |-> PyInt(1984)],
      [k |-> K_genre, v |-> PyStr(Other)],
      [k |-> K_read, v |-> PyBool(FALSE)],
      [k |-> K_date_added, v |-> PyStr(strftime([year |-> 2023, month |-> 11, day |-> 9]))]>>

\* books.json: absent, or present with some text
Absent == [exists |-> FALSE, content |-> <<>>]
Present(toks) == [exists |-> TRUE, content |-> toks]

\* what books.json can hold when a session starts
InitFiles ==
    { Absent,
      Present(<<>>),
      Present(<<Punct("["), Punct("{")>>),
      Present(json_dump(PyList(<<>>))),
      Present(json_dump(PyList(<<OldBook>>))),
      Present(json_dump(PyDict(<<>>))),
      Present(json_dump(PyDict(<<[k |-> K_title, v |-> PyStr(<<"a">>)]>>))),
      Present(json_dump(PyScalar(PyInt(42)))),
      Present(json_dump(PyScalar(PyStr(<<>>)))) }

(***************************************************************************)
(* BookCollection.                                                         *)
(***************************************************************************)
\* read_from_file: the value assigned to self.books_list
read_from_file(f) ==
    IF ~f.exists THEN PyList(<<>>)
    ELSE LET r == json_load(f.content) IN
         IF r.ok THEN r.val ELSE PyList(<<>>)

\* save_to_file: the outcomes of open(storage_file, "w") and json.dump.  open
\* truncates the file, json.dump then writes it piece by piece; an I/O error
\* leaves the file as it was (open failed) or holding a proper prefix of the
\* text (of at most MaxWritten tokens in this model).
save_to_file(val, f, nfaults) ==
    LET text == json_dump(val) IN
    {[file |-> Present(text), ret |-> "ok", faults |-> nfaults]}
      \cup (IF nfaults < MaxFaults
            THEN {[file |-> f, ret |-> "OSError", faults |-> nfaults + 1]}
                   \cup {[file |-> Present(SubSeq(text, 1, n)), ret |-> "OSError",
                          faults |-> nfaults + 1] :
                             n \in {m \in 0..MaxWritten : m < Len(text)}}
            ELSE {})

\* the last call: the session, the method and its arguments, what it returned or
\* raised, and how many books the session held when it was made
Called(s, op, in, title, new_data, ret, len0) ==
    [s |-> s, op |-> op, in |-> in, title |-> title, new_data |-> new_data, ret |-> ret,
     len0 |-> len0]

\* a comparison that forgets .lower()
TitleMatchesCaseSensitive(book, title) == Get(book, K_title).s = title

\* book["title"].lower() == title.lower()
TitleMatches(book, title) == Lower(Get(book, K_title).s) = Lower(title)

\* what "for book in self.books_list" yields when books_list is not a list
Iterable(val) == val.ty \in {"list", "dict"} \/ (val.ty = "scalar" /\ val.v.ty = "str")
IterLen(val) ==
    CASE val.ty = "list" -> Len(val.items)
      [] val.ty = "dict" -> Len(val.d)
      [] OTHER -> Len(val.v.s)

\* __init__ (a session's first run of the script): read_from_file
BookCollectionInit(s) ==
    /\ books_list' = [books_list EXCEPT ![s] = read_from_file(file)]
    /\ call' = Called(s, "init", NoInput, <<>>, <<>>, "None", 0)
    /\ UNCHANGED <<file, now, faults>>

new_book(in, dt) ==
    <<[k |-> K_title, v |-> PyStr(in.title)],
      [k |-> K_author, v |-> PyStr(in.author)],
      [k |-> K_year, v |-> PyInt(in.year)],
      [k |-> K_genre, v |-> PyStr(in.genre)],
      [k |-> K_read, v |-> PyBool(in.read)],
      [k |-> K_date_added, v |-> PyStr(strftime(dt))]>>

\* an add_book that reads books.json again before it appends
add_book_rereading(s, in) ==
    LET bl == read_from_file(file) IN
    IF bl.ty # "list"
    THEN /\ call' = Called(s, "add", in, in.title, <<>>, "AttributeError", 0)
         /\ UNCHANGED <<books_list, file, now, faults>>
    ELSE LET new == PyList(Append(bl.items, new_book(in, Clock[now]))) IN
         \E r \in save_to_file(new, file, faults) :
            /\ books_list' = [books_list EXCEPT ![s] = new]
            /\ file' = r.file
            /\ faults' = r.faults
            /\ call' = Called(s, "add", in, in.title, <<>>,
                              IF r.ret = "ok" THEN "None" ELSE r.ret, Len(bl.items))
            /\ UNCHANGED now

add_book(s, in) ==
    LET bl == books_list[s] IN
    IF bl.ty # "list"
    THEN \* no append on a dict, a str or a number
         /\ call' = Called(s, "add", in, in.title, <<>>, "AttributeError", 0)
         /\ UNCHANGED <<books_list, file, now, faults>>
    ELSE LET new == PyList(Append(bl.items, new_book(in, Clock[now]))) IN
         \E r \in save_to_file(new, file, faults) :
            /\ books_list' = [books_list EXCEPT ![s] = new]
            /\ file' = r.file
            /\ faults' = r.faults
            /\ call' = Called(s, "add", in, in.title, <<>>,
                              IF r.ret = "ok" THEN "None" ELSE r.ret, Len(bl.items))
            /\ UNCHANGED now

Kept(items, title) == SelectSeq(items, LAMBDA book : ~TitleMatches(book, title))

\* a delete_book that saves only when it removed a book
delete_book_saving_on_removal(s, title) ==
    LET bl == books_list[s] IN
    IF bl.ty # "list" /\ ~(Iterable(bl) /\ IterLen(bl) = 0)
    THEN /\ call' = Called(s, "delete", NoInput, title, <<>>, "TypeError", 0)
         /\ UNCHANGED <<books_list, file, now, faults>>
    ELSE LET new == PyList(IF bl.ty = "list" THEN Kept(bl.items, title) ELSE <<>>) IN
         IF new = bl
         THEN /\ call' = Called(s, "delete", NoInput, title, <<>>, "None", IterLen(bl))
              /\ UNCHANGED <<books_list, file, now, faults>>
         ELSE \E r \in save_to_file(new, file, faults) :
                 /\ books_list' = [books_list EXCEPT ![s] = new]
                 /\ file' = r.file
                 /\ faults' = r.faults
                 /\ call' = Called(s, "delete", NoInput, title, <<>>,
                                   IF r.ret = "ok" THEN "None" ELSE r.ret, IterLen(bl))
                 /\ UNCHANGED now

delete_book(s, title) ==
    LET bl == books_list[s] IN
    IF bl.ty # "list" /\ ~(Iterable(bl) /\ IterLen(bl) = 0)
    THEN \* not iterable, or its elements are not subscriptable by "title"
         /\ call' = Called(s, "delete", NoInput, title, <<>>, "TypeError", 0)
         /\ UNCHANGED <<books_list, file, now, faults>>
    ELSE LET new == PyList(IF bl.ty = "list" THEN Kept(bl.items, title) ELSE <<>>) IN
         \E r \in save_to_file(new, file, faults) :
            /\ books_list' = [books_list EXCEPT ![s] = new]
            /\ file' = r.file
            /\ faults' = r.faults
            /\ call' = Called(s, "delete", NoInput, title, <<>>,
                              IF r.ret = "ok" THEN "None" ELSE r.ret, IterLen(bl))
            /\ UNCHANGED now

\* a loop that keeps going and ends on the last match
LastMatch(items, title) ==
    IF \E i \in 1..Len(items) : TitleMatches(items[i], title)
    THEN CHOOSE i \in 1..Len(items) :
            /\ TitleMatches(items[i], title)
            /\ \A j \in (i + 1)..Len(items) : ~TitleMatches(items[j], title)
    ELSE 0

\* the index of the first book the loop of update_book matches, 0 if none
FirstMatch(items, title) ==
    IF \E i \in 1..Len(items) : TitleMatches(items[i], title)
    THEN CHOOSE i \in 1..Len(items) :
            /\ TitleMatches(items[i], title)
            /\ \A j \in 1..(i - 1) : ~TitleMatches(items[j], title)
    ELSE 0

update_book(s, title, new_data) ==
    LET bl == books_list[s] IN
    IF bl.ty # "list" /\ ~(Iterable(bl) /\ IterLen(bl) = 0)
    THEN /\ call' = Called(s, "update", NoInput, title, new_data, "TypeError", 0)
         /\ UNCHANGED <<books_list, file, now, faults>>
    ELSE LET m == IF bl.ty = "list" THEN FirstMatch(bl.items, title) ELSE 0 IN
         IF m = 0
         THEN /\ call' = Called(s, "update", NoInput, title, new_data, "False", IterLen(bl))
              /\ UNCHANGED <<books_list, file, now, faults>>
         ELSE LET new == PyList([bl.items EXCEPT ![m] = DictUpdate(@, new_data)]) IN
              \E r \in save_to_file(new, file, faults) :
                 /\ books_list' = [books_list EXCEPT ![s] = new]
                 /\ file' = r.file
                 /\ faults' = r.faults
                 /\ call' = Called(s, "update", NoInput, title, new_data,
                                   IF r.ret = "ok" THEN "True" ELSE r.ret, IterLen(bl))
                 /\ UNCHANGED now

(***************************************************************************)
(* The page's handlers that reach BookCollection.  handler names the       *)
(* widget whose handler made the last call ("none": the method was called  *)
(* directly).                                                              *)
(***************************************************************************)
\* "if title": the author is not looked at
FormValidTitleOnly(in) == in.title # <<>>

\* "if title and author": both strings are non-empty
FormValid(in) == in.title # <<>> /\ in.author # <<>>

\* the Add Book form: add_book when the form is valid, st.error otherwise
AddBookForm(s, in) ==
    /\ handler' = "add_book_form"
    /\ IF FormValid(in)
       THEN add_book(s, in)
       ELSE /\ call' = Called(s, "form_error", in, in.title, <<>>, "None", 0)
            /\ UNCHANGED <<books_list, file, now, faults>>

\* the Delete button of the i-th displayed book; the button's key is the title,
\* so the page cannot draw a second button for a title already shown
DeleteButton(s, i) ==
    /\ books_list[s].ty = "list"
    /\ i \in 1..Len(books_list[s].items)
    /\ \A j \in 1..(i - 1) :
          Get(books_list[s].items[j], K_title) # Get(books_list[s].items[i], K_title)
    /\ handler' = "delete_button"
    /\ delete_book(s, Get(books_list[s].items[i], K_title).s)

\* time passes: datetime.now() moves to the next value of Clock
Tick ==
    /\ now < Len(Clock)
    /\ now' = now + 1
    /\ call' = Called("", "tick", NoInput, <<>>, <<>>, "None", 0)
    /\ handler' = "none"
    /\ UNCHANGED <<books_list, file, faults>>

(***************************************************************************)
(* Specifications: one session with I/O errors, and two sessions that      *)
(* loaded the same books.json once, at their start, whose saves succeed.   *)
(***************************************************************************)
Sessions == {"A"}
SharedSessions == {"A", "B"}

InitOf(S, files, nfaults) ==
    /\ file \in files
    /\ books_list = [s \in S |-> read_from_file(file)]
    /\ now = 1
    /\ faults = nfaults
    /\ call = Called("", "start", NoInput, <<>>, <<>>, "None", 0)
    /\ handler = "none"

HasRoom(s, max) == books_list[s].ty = "list" => Len(books_list[s].items) < max

Init == InitOf(Sessions, InitFiles, 0)

Next ==
    \/ \E s \in Sessions : BookCollectionInit(s) /\ handler' = "none"
    \/ \E s \in Sessions, in \in AddInputs :
          HasRoom(s, MaxBooks) /\ add_book(s, in) /\ handler' = "none"
    \/ \E s \in Sessions, in \in FormInputs : HasRoom(s, MaxBooks) /\ AddBookForm(s, in)
    \/ \E s \in Sessions, title \in DeleteTitles : delete_book(s, title) /\ handler' = "none"
    \/ \E s \in Sessions, i \in 1..MaxBooks : DeleteButton(s, i)
    \/ \E s \in Sessions, title \in UpdateTitles, new_data \in NewData :
          update_book(s, title, new_data) /\ handler' = "none"
    \/ Tick

Spec == Init /\ [][Next]_vars

SharedFiles == {Absent, Present(json_dump(PyList(<<OldBook>>)))}

SharedInit == InitOf(SharedSessions, SharedFiles, MaxFaults)

SharedNext ==
    \/ \E s \in SharedSessions, in \in ValidInputs :
          HasRoom(s, MaxBooks) /\ add_book(s, in) /\ handler' = "none"
    \/ \E s \in SharedSessions, title \in DeleteTitles :
          delete_book(s, title) /\ handler' = "none"
    \/ \E s \in SharedSessions, title \in UpdateTitles, new_data \in NewData :
          update_book(s, title, new_data) /\ handler' = "none"

SharedSpec == SharedInit /\ [][SharedNext]_vars

(***************************************************************************)
(* Vocabulary of the properties.  These definitions say what the           *)
(* specification expects and do not use the operators of the model above.  *)
(***************************************************************************)
Mutators == {"add", "delete", "update"}

Title(book) == Get(book, K_title).s
DateAdded(book) == Get(book, K_date_added)
Keys(d) == {d[i].k : i \in 1..Len(d)}

SameLetter(c1, c2) ==
    \/ c1 = c2
    \/ \E i \in 1..Len(UpperCase) :
          \/ c1 = UpperCase[i] /\ c2 = LowerCase[i]
          \/ c1 = LowerCase[i] /\ c2 = UpperCase[i]

EqualIgnoringCase(t1, t2) ==
    /\ Len(t1) = Len(t2)
    /\ \A i \in 1..Len(t1) : SameLetter(t1[i], t2[i])

\* the positions of the books whose title is t, letter case aside
Matching(items, t) == {i \in 1..Len(items) : EqualIgnoringCase(Title(items[i]), t)}

Min(S) == CHOOSE m \in S : \A n \in S : m <= n

\* the ISO text of the values of Clock
IsoDate ==
    << <<"2", "0", "2", "4", "-", "1", "2", "-", "3", "1">>,
       <<"2", "0", "2", "5", "-", "0", "1", "-", "0", "1">> >>

\* the last call completed with its save done
Persisted(c) == c.op \in Mutators /\ c.ret \in {"None", "True"}

\* books.json holds a JSON array
HoldsArray(f) == f.exists /\ f.content # <<>> /\ f.content[1] = Punct("[")

(***************************************************************************)
(* C1: delete(title) removes exactly the records whose title equals the    *)
(* argument case-insensitively, all of them, and leaves every other record *)
(* present, unchanged and in its original relative order; when no record   *)
(* matches, the in-memory collection is equal to what it was.              *)
(***************************************************************************)
C1_DeleteRemovesExactlyTheMatches ==
    [][(call'.op = "delete" /\ books_list[call'.s].ty = "list") =>
        LET s == call'.s
            old == books_list[s].items
            new == books_list'[s].items
        IN  \A gone \in {Matching(old, call'.title)} :
            \A keep \in {(1..Len(old)) \ gone} :
                /\ books_list'[s].ty = "list"
                /\ Len(new) = Cardinality(keep)
                /\ \A i \in keep : new[Cardinality({j \in keep : j <= i})] = old[i]
                /\ (gone = {} => books_list'[s] = books_list[s])]_vars

\* a delete removed one of two books and kept the other
C1_Witness ==
    /\ call.op = "delete"
    /\ call.ret = "None"
    /\ call.len0 = 2
    /\ books_list[call.s].ty = "list"
    /\ Len(books_list[call.s].items) = 1

C3_UpdateChangesFirstMatchOnly ==
    [][(call'.op = "update" /\ books_list[call'.s].ty = "list") =>
        LET s == call'.s
            old == books_list[s].items
            new == books_list'[s].items
            nd == call'.new_data
        IN  \A hits \in {Matching(old, call'.title)} :
            IF hits = {}
            THEN /\ call'.ret = "False"
                 /\ books_list' = books_list
                 /\ file' = file
            ELSE \A m \in {Min(hits)} :
                 /\ books_list'[s].ty = "list"
                 /\ Len(new) = Len(old)
                 /\ \A i \in 1..Len(old) : i # m => new[i] = old[i]
                 /\ Keys(new[m]) = Keys(old[m]) \cup Keys(nd)
                 /\ \A k \in Keys(nd) : Get(new[m], k) = Get(nd, k)
                 /\ \A k \in Keys(old[m]) \ Keys(nd) : Get(new[m], k) = Get(old[m], k)
                 /\ call'.ret \in {"True", "OSError"}
                 /\ (call'.ret = "True" =>
                        /\ file'.exists
                        /\ json_load(file'.content) = [ok |-> TRUE, val |-> books_list'[s]])]_vars

\* an update changed the first of two books of the same title and not the second
C3_Witness ==
    /\ call.op = "update"
    /\ call.ret = "True"
    /\ books_list[call.s].ty = "list"
    /\ Len(books_list[call.s].items) = 2
    /\ Matching(books_list[call.s].items, call.title) = {1, 2}
    /\ K_notes \in Keys(books_list[call.s].items[1])
    /\ K_notes \notin Keys(books_list[call.s].items[2])

(***************************************************************************)
(* C4, as claimed: a record's date_added is never modified after add       *)
(* created it: every record keeps its date_added across add and update     *)
(* calls, also when update's fields contain a date_added entry (stated for *)
(* the runs without any I/O error).                                        *)
(***************************************************************************)
C4_DateAddedNeverModified ==
    [][(/\ call'.op \in {"add", "update"}
        /\ faults' = 0
        /\ books_list[call'.s].ty = "list"
        /\ books_list'[call'.s].ty = "list") =>
        \A i \in 1..Len(books_list[call'.s].items) :
            DateAdded(books_list'[call'.s].items[i]) = DateAdded(books_list[call'.s].items[i])]_vars

C6_AddAppendsOneRecord ==
    [][(call'.op = "add" /\ books_list[call'.s].ty = "list") =>
        LET s == call'.s
            old == books_list[s].items
            new == books_list'[s].items
            in == call'.in
        IN  /\ books_list'[s].ty = "list"
            /\ Len(new) = Len(old) + 1
            /\ SubSeq(new, 1, Len(old)) = old
            /\ Keys(new[Len(new)]) =
                  {K_title, K_author, K_year, K_genre, K_read, K_date_added}
            /\ Get(new[Len(new)], K_title) = PyStr(in.title)
            /\ Get(new[Len(new)], K_author) = PyStr(in.author)
            /\ Get(new[Len(new)], K_year) = PyInt(in.year)
            /\ Get(new[Len(new)], K_genre) = PyStr(in.genre)
            /\ Get(new[Len(new)], K_read) = PyBool(in.read)
            /\ Get(new[Len(new)], K_date_added) = PyStr(IsoDate[now])]_vars

\* on the second day a book was added after one of the same title in other case
C6_Witness ==
    /\ call.op = "add"
    /\ call.ret = "None"
    /\ now = 2
    /\ books_list[call.s].ty = "list"
    /\ Len(books_list[call.s].items) = 2
    /\ Title(books_list[call.s].items[1]) # Title(books_list[call.s].items[2])
    /\ Matching(books_list[call.s].items, call.title) = {1, 2}
    /\ DateAdded(books_list[call.s].items[2]) = PyStr(IsoDate[2])

(***************************************************************************)
(* C7, as claimed: load gives the empty sequence whenever books.json is    *)
(* absent or does not hold an array: after construction the in-memory      *)
(* collection is then the empty list.                                      *)
(***************************************************************************)
C7_LoadOfNonArrayIsEmpty ==
    /\ (call.op = "start" /\ ~HoldsArray(file)) =>
           \A s \in DOMAIN books_list : books_list[s] = PyList(<<>>)
    /\ (call.op = "init" /\ ~HoldsArray(file)) => books_list[call.s] = PyList(<<>>)

(***************************************************************************)
(* C8, as claimed: save is atomic: a books.json that held a complete       *)
(* collection holds, after every step, either that previous content or the *)
(* complete serialization of the collection being saved, also when the     *)
(* save fails.                                                             *)
(***************************************************************************)
C8_SaveIsAtomic ==
    [][(HoldsArray(file) /\ json_load(file.content).ok) =>
        \/ file' = file
        \/ /\ call'.op \in Mutators
           /\ file'.exists
           /\ json_load(file'.content) = [ok |-> TRUE, val |-> books_list'[call'.s]]]_vars

(***************************************************************************)
(* C9: after a mutator whose save succeeded, books.json holds the          *)
(* in-memory collection: a load made then returns a sequence of records    *)
(* equal to it in content and order.                                       *)
(***************************************************************************)
C9_LoadAfterSaveReturnsCollection ==
    Persisted(call) =>
        /\ file.exists
        /\ read_from_file(file) = books_list[call.s]
        /\ books_list[call.s].ty = "list"

\* an update has been saved with two books held, one of them with an added key
C9_Witness ==
    /\ call.op = "update"
    /\ call.ret = "True"
    /\ books_list[call.s].ty = "list"
    /\ Len(books_list[call.s].items) = 2
    /\ K_notes \in Keys(books_list[call.s].items[1])
    /\ Get(books_list[call.s].items[2], K_read) = PyBool(FALSE)

(***************************************************************************)
(* C10: with two sessions that loaded the same books.json, a persisting    *)
(* mutator of one session writes exactly that session's collection, which  *)
(* it computed from its own earlier collection without reading the file    *)
(* again: the last save wins and a record the other session saved before   *)
(* is absent from the file.                                                *)
(***************************************************************************)
C10_LastSaveWins ==
    [][Persisted(call') =>
        LET s == call'.s
            old == books_list[s].items
            new == books_list'[s].items
        IN  /\ file'.exists
            /\ json_load(file'.content) = [ok |-> TRUE, val |-> books_list'[s]]
            /\ \A t \in DOMAIN books_list : t # s => books_list'[t] = books_list[t]
            /\ (call'.op = "add" =>
                   (Len(new) = Len(old) + 1 /\ SubSeq(new, 1, Len(old)) = old))
            /\ (call'.op = "delete" =>
                   \A i \in 1..Len(new) : \E j \in 1..Len(old) : new[i] = old[j])
            /\ (call'.op = "update" => Len(new) = Len(old))]_vars

\* session B's add has overwritten books.json, which had held the record that
\* session A added (A's saves all succeed in SharedSpec): A's record is lost
C10_Witness ==
    /\ call.s = "B"
    /\ call.op = "add"
    /\ call.ret = "None"
    /\ books_list["A"].ty = "list"
    /\ Len(books_list["A"].items) = 1
    /\ books_list["A"].items[1] # OldBook
    /\ read_from_file(file) = books_list["B"]
    /\ \A i \in 1..Len(books_list["B"].items) :
          books_list["B"].items[i] # books_list["A"].items[1]

====
